---- MODULE Spec2Model ----
(***************************************************************************)
(* A model of the Cortex ruler (pkg/ruler/ruler.go): the sync loop         *)
(* (run / loadRules / syncManager), the per-tenant rule managers           *)
(* (userManagers), the per-tenant notifiers (getOrCreateNotifier, the Do   *)
(* callback, sendAlerts), ring ownership (ownsRule), shutdown (stopping),  *)
(* rule inspection over the ring (GetRules) and the two mutexes.           *)
(***************************************************************************)
EXTENDS Integers, Sequences, FiniteSets, TLC

VARIABLES
    \* ---- one ruler replica (type Ruler, ruler.go:107-132) ----
    enableSharding,      \* cfg.EnableSharding
    pc,                  \* position of the run goroutine / the service
    tickNo,              \* number of loadRules calls started so far
    configs,             \* loadRules: result of the last ListAllRuleGroups
    remaining,           \* loadRules: tenants of configs not yet iterated
    userManagers,        \* r.userManagers: tenant -> manager (index in managers)
    managers,            \* every promRules.Manager ever created
    notifiers,           \* r.notifiers: tenant -> notifier (index in nobjs)
    nobjs,               \* every rulerNotifier ever constructed
    disk,                \* the mapper's rule files: tenant -> (namespace -> groups)
    configUpdatesTotal,  \* cortex_ruler_config_updates_total{user}
    ringCheckErrors,     \* cortex_ruler_ring_check_errors_total
    inRing,              \* the ring/lifecycler subservices are running
    faults,              \* failures of the store, the ring, the mapper, ... so far
    \* ---- observations of the current and the previous tick ----
    tick,                \* what the current loadRules call has done so far
    prev,                \* summary of the loadRules call before it
    lastSync,            \* the last syncManager call of the current tick
    \* ---- a fleet of replicas filtering one poll against one ring ----
    shRing,              \* the fixed ring snapshot: shard key -> ring.Get result
    shConfigs,           \* the poll result every replica reads
    shPc,                \* replica -> position of its loadRules call
    shRemaining,         \* replica -> tenants not yet iterated
    shFiltered,          \* replica -> tenant -> filteredGroups given to syncManager
    \* ---- sendAlerts ----
    alertsIn,            \* the alerts handed to the NotifyFunc
    sent,                \* whether notifier.Send was called, and its batch
    \* ---- the notifier's Do callback ----
    lastReq,             \* the last call of a notifier's Do callback
    \* ---- GetRules over the ring ----
    insRing,             \* what r.ring.GetAll() answers
    insCtx,              \* the org ID of the caller's context (None: none)
    insFail,             \* replica -> what fails when it is asked for its rules
    insLocal,            \* replica -> tenant -> what its getLocalRules returns
    insOut,              \* the return values of GetRules
    \* ---- the two mutexes of the ruler ----
    lkAt,                \* thread -> the operation it is in and its position
    lkOwner,             \* mutex -> the thread that holds it (None: free)
    \* ---- the loop of run ----
    runPc,               \* position of run
    ctxDone,             \* the context of run is cancelled
    tickC,               \* ticks buffered in the ticker's channel (0 or 1)
    loads,               \* loadRules calls started
    runLog               \* how the loadRules calls ended, in order

vars == << enableSharding, pc, tickNo, configs, remaining, userManagers,
           managers, notifiers, nobjs, disk, configUpdatesTotal,
           ringCheckErrors, inRing, faults, tick, prev, lastSync,
           shRing, shConfigs, shPc, shRemaining, shFiltered,
           alertsIn, sent, lastReq,
           insRing, insCtx, insFail, insLocal, insOut,
           lkAt, lkOwner, runPc, ctxDone, tickC, loads, runLog >>

rulerVars == << enableSharding, pc, tickNo, configs, remaining, userManagers,
                managers, notifiers, nobjs, disk, configUpdatesTotal,
                ringCheckErrors, inRing, faults, tick, prev, lastSync >>
shardVars == << shRing, shConfigs, shPc, shRemaining, shFiltered >>
alertVars == << alertsIn, sent >>
inspectVars == << insRing, insCtx, insFail, insLocal, insOut >>
lockVars == << lkAt, lkOwner >>
runVars == << runPc, ctxDone, tickC, loads, runLog >>
auxVars == << inspectVars, lockVars, runVars >>
otherVars == << shardVars, alertVars, lastReq, auxVars >>

(***************************************************************************)
(* Bounds of the model.                                                    *)
(***************************************************************************)
MaxTicks == 3        \* loadRules calls per behaviour, sharding disabled
MaxShardedTicks == 2 \* loadRules calls per behaviour, sharding enabled
MaxFaults == 1       \* failures injected per behaviour
MaxAlerts == 2       \* alerts per NotifyFunc call
MaxNotifiers == 3    \* notifiers constructed per behaviour of SpecNotify

(***************************************************************************)
(* Tenants, rule groups and replicas.                                      *)
(***************************************************************************)
Tenants == {"a", "b"}
None == "none"

\* store.RuleGroupDesc: identity (User, Namespace, Name) and the rules (expr).
Group(u, ns, n, e) == [user |-> u, namespace |-> ns, name |-> n, expr |-> e]

\* The rule group lists a tenant can have in the rule store.
\* Tenant a has one group whose rules change, tenant b one group.
GroupLists(u) ==
    IF u = "a"
    THEN { << Group(u, "ns1", "g1", 1) >>,
           << Group(u, "ns1", "g1", 2) >> }
    ELSE { << Group(u, "ns1", "g1", 1) >> }

\* The rule group lists of the fleet of replicas: two groups per tenant.
FleetLists(u) ==
    { << Group(u, "ns1", "g1", 1), Group(u, "ns2", "g2", 1) >>,
      << Group(u, "ns2", "g2", 1), Group(u, "ns1", "g1", 1) >> }

\* The results ListAllRuleGroups can return: map[string]RuleGroupList.
Polls ==
    UNION { { f \in [S -> UNION { GroupLists(u) : u \in S }] :
                \A u \in S : f[u] \in GroupLists(u) } : S \in SUBSET Tenants }

Range(s) == { s[i] : i \in DOMAIN s }

AllGroups ==
    UNION { Range(l) :
              l \in UNION { GroupLists(u) \cup FleetLists(u) : u \in Tenants } }

\* Ring members (lifecycler.Addr of each replica).
Replicas == {"r1", "r2"}
SelfAddr == "r1"
RingErr == "ringErr"
\* What ring.Get answers for a key: the first ingester's Addr, or an error.
RingResults == Replicas \cup {RingErr}

(***************************************************************************)
(* The shard key: fnv.New32a() over []byte(User/Namespace/Name).           *)
(* A uint32 is kept as two 16-bit limbs << hi, lo >>.                      *)
(***************************************************************************)
Limb == 65536
FnvOffsetHi == 33052     \* 0x811C
FnvOffsetLo == 40389     \* 0x9DC5  (offset32 = 0x811C9DC5)
FnvPrimeLow == 403       \* prime32 = 2^24 + 0x193

\* []byte(s) for the strings of the model (UTF-8 = ASCII here).
Bytes(s) ==
    CASE s = "a"   -> << 97 >>
      [] s = "b"   -> << 98 >>
      [] s = "ns1" -> << 110, 115, 49 >>
      [] s = "ns2" -> << 110, 115, 50 >>
      [] s = "g1"  -> << 103, 49 >>
      [] s = "g2"  -> << 103, 50 >>
      [] s = "/"   -> << 47 >>

\* id := g.User + "/" + g.Namespace + "/" + g.Name
ShardId(g) ==
    Bytes(g.user) \o Bytes("/") \o Bytes(g.namespace) \o Bytes("/") \o Bytes(g.name)

RECURSIVE Xor(_, _, _)
Xor(x, y, bits) ==
    IF bits = 0 THEN 0
    ELSE ((x + y) % 2) + 2 * Xor(x \div 2, y \div 2, bits - 1)

\* hash ^= uint32(c); hash *= prime32   (mod 2^32)
FnvStep(h, c) ==
    LET hi == h[1]
        lo == (h[2] - (h[2] % 256)) + Xor(h[2] % 256, c, 8)
        p  == lo * FnvPrimeLow
    IN  << ((p \div Limb) + hi * FnvPrimeLow + (lo % 256) * 256) % Limb,
           p % Limb >>

RECURSIVE FnvLoop(_, _, _)
FnvLoop(h, data, i) ==
    IF i > Len(data) THEN h ELSE FnvLoop(FnvStep(h, data[i]), data, i + 1)

\* ringHasher.Reset(); ringHasher.Write(id); ringHasher.Sum32()
Sum32(data) == FnvLoop(<< FnvOffsetHi, FnvOffsetLo >>, data, 1)

\* The shard key of every group of the model, computed once.
ShardKeyOf == [g \in AllGroups |-> Sum32(ShardId(g))]
ShardKey(g) == ShardKeyOf[g]
Keys == { ShardKey(g) : g \in AllGroups }
KeysOf(cfg) == { ShardKey(cfg[i]) : i \in DOMAIN cfg }

(***************************************************************************)
(* Ring ownership and the shard filter of loadRules.                       *)
(***************************************************************************)
\* A plausible slip: the address comparison is lost and every group the ring
\* answers for is taken as owned.
ownsRuleIgnoringOwner(rlrs, addr) ==
    [owned |-> TRUE, err |-> rlrs = RingErr]

\* Ruler.ownsRule: rlrs is the answer of r.ring.Get(hash, ring.Read, ...),
\* addr is r.lifecycler.Addr.
ownsRule(rlrs, addr) ==
    IF rlrs = RingErr
    THEN [owned |-> FALSE, err |-> TRUE]
    ELSE IF rlrs = addr
         THEN [owned |-> TRUE, err |-> FALSE]
         ELSE [owned |-> FALSE, err |-> FALSE]

\* A plausible slip: an owned group is put in front of the groups kept so
\* far instead of behind them.
RECURSIVE FilterLoopReversed(_, _, _, _, _)
FilterLoopReversed(cfg, i, acc, ringGet, addr) ==
    IF i > Len(cfg)
    THEN [filtered |-> acc, err |-> FALSE, queries |-> i - 1]
    ELSE LET o == ownsRule(ringGet[ShardKey(cfg[i])], addr)
         IN  IF o.err
             THEN [filtered |-> acc, err |-> TRUE, queries |-> i]
             ELSE FilterLoopReversed(cfg, i + 1,
                                     IF o.owned THEN << cfg[i] >> \o acc
                                     ELSE acc,
                                     ringGet, addr)

\* The loop "for _, g := range cfg" of loadRules: the groups owned so far,
\* left at the first ring error (err), which makes loadRules return.
\* fnv's Write never returns an error, so the "continue" is dead code.
RECURSIVE FilterLoop(_, _, _, _, _)
FilterLoop(cfg, i, acc, ringGet, addr) ==
    IF i > Len(cfg)
    THEN [filtered |-> acc, err |-> FALSE, queries |-> i - 1]
    ELSE LET o == ownsRule(ringGet[ShardKey(cfg[i])], addr)
         IN  IF o.err
             THEN [filtered |-> acc, err |-> TRUE, queries |-> i]
             ELSE FilterLoop(cfg, i + 1,
                             IF o.owned THEN Append(acc, cfg[i]) ELSE acc,
                             ringGet, addr)

\* A plausible slip: cfg.EnableSharding is not looked at and every tenant's
\* list is taken whole.
FilterGroupsUnsharded(sharding, cfg, ringGet, addr) ==
    [filtered |-> cfg, err |-> FALSE, queries |-> 0]

\* filteredGroups of loadRules for one tenant, and the number of ownsRule
\* calls made for it.
FilterGroups(sharding, cfg, ringGet, addr) ==
    IF sharding
    THEN FilterLoop(cfg, 1, << >>, ringGet, addr)
    ELSE [filtered |-> cfg, err |-> FALSE, queries |-> 0]

(***************************************************************************)
(* The file mapper (mapper.go is not part of the sources at hand).         *)
(***************************************************************************)
NoFiles == [ns \in {} |-> << >>]

\* RuleGroupList.Formatted(): namespace -> the groups of that namespace, in
\* the order of the list.
Formatted(groups) ==
    [ns \in { groups[i].namespace : i \in DOMAIN groups } |->
        SelectSeq(groups, LAMBDA g : g.namespace = ns)]

\* mapper.MapRules(user, ruleConfigs) on the tenant's directory 'files':
\* update is true iff the content or the file set differs from what is on
\* disk; afterwards the directory holds exactly ruleConfigs.  An I/O error
\* is returned and leaves the directory as it was.
MapRules(files, ruleConfigs, ioErr) ==
    IF ioErr
    THEN [update |-> FALSE, files |-> {}, disk |-> files, err |-> TRUE]
    ELSE [update |-> files # ruleConfigs, files |-> DOMAIN ruleConfigs,
          disk |-> ruleConfigs, err |-> FALSE]

(***************************************************************************)
(* Notifiers.                                                              *)
(***************************************************************************)
\* A plausible slip: the lookup "if ok" is lost and a notifier is built
\* (and stored) on every call.
getOrCreateNotifierNoLookup(pool, objs, userID, cfgErr) ==
    LET n == Len(objs) + 1
        objs2 == Append(objs, [user |-> userID, running |-> TRUE])
    IN  IF cfgErr
        THEN [pool |-> pool, objs |-> objs2, n |-> 0, err |-> TRUE]
        ELSE [pool |-> [u \in DOMAIN pool \cup {userID} |->
                            IF u = userID THEN n ELSE pool[u]],
              objs |-> objs2, n |-> n, err |-> FALSE]

\* Ruler.getOrCreateNotifier: pool is r.notifiers, objs every rulerNotifier
\* built so far; cfgErr says that n.applyConfig(r.notifierCfg) fails.
\* "go n.run()" precedes applyConfig, so a notifier whose configuration
\* fails is running and in no map.
getOrCreateNotifier(pool, objs, userID, cfgErr) ==
    IF userID \in DOMAIN pool
    THEN [pool |-> pool, objs |-> objs, n |-> pool[userID], err |-> FALSE]
    ELSE LET n == Len(objs) + 1
             objs2 == Append(objs, [user |-> userID, running |-> TRUE])
         IN  IF cfgErr
             THEN [pool |-> pool, objs |-> objs2, n |-> 0, err |-> TRUE]
             ELSE [pool |-> [u \in DOMAIN pool \cup {userID} |->
                                 IF u = userID THEN n ELSE pool[u]],
                   objs |-> objs2, n |-> n, err |-> FALSE]

\* Ruler.newManager: the manager is built around the tenant's notifier.
newManager(pool, objs, userID, cfgErr) ==
    LET g == getOrCreateNotifier(pool, objs, userID, cfgErr)
    IN  [pool |-> g.pool, objs |-> g.objs, err |-> g.err,
         manager |-> [user |-> userID, state |-> "created",
                      loaded |-> NoFiles, notifier |-> g.n]]

(***************************************************************************)
(* The state of one ruler and what a tick has done to it.                  *)
(***************************************************************************)
\* The calls of one loop iteration of loadRules that can fail.
Faults == {"none", "ring", "map", "create", "update"}

\* loadRules is called at most this often (each call of a sharded ruler
\* branches over the answers of the ring).
TickBound == IF enableSharding THEN MaxShardedTicks ELSE MaxTicks

NoCfg == [u \in {} |-> << >>]
NoSync == [user |-> None]

\* The loaded rule files of the registered managers, tenant by tenant.
LoadedOf(um, mgrs) == [u \in DOMAIN um |-> mgrs[um[u]].loaded]

\* The state a tick starts from.
Snapshot ==
    [um |-> userManagers, loaded |-> LoadedOf(userManagers, managers),
     disk |-> disk, cut |-> configUpdatesTotal]

\* The ring's answers for the groups of the tenants a tick has got to (none
\* without sharding: there is no ring).
NoRing == [u \in {} |-> [k \in {} |-> RingErr]]

NoTick ==
    [outcome |-> "none", pre |-> None, errored |-> {}, mapErrs |-> {},
     updErrs |-> {}, wrote |-> {}, incd |-> {}, updated |-> {}, filtered |-> NoCfg,
     ring |-> NoRing,
     stopped |-> {}]

\* What is kept of a tick once the next one has begun; of a tick aborted by
\* a ring error also the state it had started from.
Summary(t, cfg) ==
    [outcome |-> t.outcome, configs |-> cfg, filtered |-> t.filtered,
     mapErrs |-> t.mapErrs,
     pre |-> IF t.outcome = "ringAbort" THEN t.pre ELSE None]

InitRuler ==
    /\ enableSharding \in BOOLEAN
    /\ pc = "start"
    /\ tickNo = 0
    /\ configs = NoCfg
    /\ remaining = {}
    /\ userManagers = [u \in {} |-> 0]
    /\ managers = << >>
    /\ notifiers = [u \in {} |-> 0]
    /\ nobjs = << >>
    /\ disk = [u \in Tenants |-> NoFiles]
    /\ configUpdatesTotal = [u \in Tenants |-> 0]
    /\ ringCheckErrors = 0
    /\ inRing = enableSharding
    /\ faults = 0
    /\ tick = NoTick
    /\ prev = Summary(NoTick, NoCfg)
    /\ lastSync = NoSync

IdleShard ==
    /\ shRing = [k \in {} |-> RingErr]
    /\ shConfigs = NoCfg
    /\ shPc = [r \in Replicas |-> "idle"]
    /\ shRemaining = [r \in Replicas |-> {}]
    /\ shFiltered = [r \in Replicas |-> NoCfg]

\* The NotifyFunc has not been called yet.
NotSent == [called |-> FALSE, send |-> FALSE, batch |-> << >>]
IdleAlerts ==
    /\ alertsIn = << >>
    /\ sent = NotSent

NoReq == [notifier |-> 0]
IdleReq == lastReq = NoReq

\* GetRules has not been called.
NoRules == [called |-> FALSE, err |-> FALSE, groups |-> << >>]
IdleInspect ==
    /\ insRing = [err |-> FALSE, ingesters |-> << >>]
    /\ insCtx = None
    /\ insFail = [r \in {} |-> "none"]
    /\ insLocal = [r \in {} |-> NoCfg]
    /\ insOut = NoRules

\* No thread is inside an operation and both mutexes are free.
Threads == {"t1", "t2", "t3"}
Mutexes == {"userManagerMtx", "notifiersMtx"}
IdleThread == [op |-> None, i |-> 0]
IdleLocks ==
    /\ lkAt = [t \in Threads |-> IdleThread]
    /\ lkOwner = [m \in Mutexes |-> None]

\* run has not been started.
IdleRun ==
    /\ runPc = "startup"
    /\ ctxDone = FALSE
    /\ tickC = 0
    /\ loads = 0
    /\ runLog = << >>

IdleAux == IdleInspect /\ IdleLocks /\ IdleRun

Init == InitRuler /\ IdleShard /\ IdleAlerts /\ IdleReq /\ IdleAux

(***************************************************************************)
(* syncManager.                                                            *)
(***************************************************************************)
\* A plausible slip: the manager is updated whether or not the mapper
\* reported a change.
ShouldUpdateAlways(update) == TRUE

\* "if update {" of syncManager.
ShouldUpdate(update) == update

\* A plausible slip: the manager takes the new files although Update
\* reports an error.
ManagerUpdateLoadsAnyway(mgr, files, content, updErr) ==
    [mgr EXCEPT !.loaded = [ns \in files |-> content[ns]]]

\* manager.Update(r.cfg.EvaluationInterval, files, nil): the manager loads
\* the files as they are on disk, or fails and keeps what it had.
ManagerUpdate(mgr, files, content, updErr) ==
    IF updErr THEN mgr
    ELSE [mgr EXCEPT !.loaded = [ns \in files |-> content[ns]]]

\* Ruler.syncManager(ctx, user, groups) under r.userManagerMtx: the new
\* values of what it touches, and what it was seen to do (obs).
syncManager(user, groups, mapErr, cfgErr, updErr) ==
    LET m == MapRules(disk[user], Formatted(groups), mapErr)
        same == [um |-> userManagers, mgrs |-> managers, pool |-> notifiers,
                 objs |-> nobjs, disk |-> disk, cut |-> configUpdatesTotal]
        obs0 == [user |-> user, update |-> m.update, err |-> "none",
                 updateCalled |-> FALSE, inc |-> 0, wrote |-> m.update]
    IN  IF m.err
        THEN [same EXCEPT !.disk = disk] @@ [obs |-> [obs0 EXCEPT !.err = "map"]]
        ELSE
        LET disk2 == [disk EXCEPT ![user] = m.disk]
        IN  IF ~ShouldUpdate(m.update)
            THEN [same EXCEPT !.disk = disk2] @@ [obs |-> obs0]
            ELSE
            LET cut2 == [configUpdatesTotal EXCEPT ![user] = @ + 1]
                exists == user \in DOMAIN userManagers
                nm == newManager(notifiers, nobjs, user, cfgErr)
            IN  IF ~exists /\ nm.err
                THEN [um |-> userManagers, mgrs |-> managers, pool |-> nm.pool,
                      objs |-> nm.objs, disk |-> disk2, cut |-> cut2,
                      obs |-> [obs0 EXCEPT !.err = "create", !.inc = 1]]
                ELSE
                LET id == IF exists THEN userManagers[user] ELSE Len(managers) + 1
                    \* manager.Run(); r.userManagers[user] = manager
                    mgrs2 == IF exists THEN managers
                             ELSE Append(managers,
                                         [nm.manager EXCEPT !.state = "running"])
                    um2 == IF exists THEN userManagers
                           ELSE [u \in DOMAIN userManagers \cup {user} |->
                                    IF u = user THEN id ELSE userManagers[u]]
                    mgrs3 == [mgrs2 EXCEPT
                                ![id] = ManagerUpdate(@, m.files, m.disk, updErr)]
                IN  [um |-> um2, mgrs |-> mgrs3,
                     pool |-> IF exists THEN notifiers ELSE nm.pool,
                     objs |-> IF exists THEN nobjs ELSE nm.objs,
                     disk |-> disk2, cut |-> cut2,
                     obs |-> [obs0 EXCEPT !.updateCalled = TRUE, !.inc = 1,
                                !.err = IF updErr THEN "update" ELSE "none"]]

(***************************************************************************)
(* loadRules, one call of which is a tick of run.                          *)
(***************************************************************************)
\* A plausible slip: the error is logged but loadRules goes on with the
\* empty configs and drops every registered tenant.
LoadRulesStoreErrGoesOn ==
    /\ pc \in {"start", "idle"}
    /\ tickNo < TickBound
    /\ faults < MaxFaults
    /\ faults' = faults + 1
    /\ tickNo' = tickNo + 1
    /\ pc' = "idle"
    /\ configs' = NoCfg
    /\ remaining' = {}
    /\ prev' = Summary(tick, configs)
    /\ tick' = [NoTick EXCEPT !.outcome = "storeErr", !.pre = Snapshot]
    /\ lastSync' = NoSync
    /\ userManagers' = [u \in {} |-> 0]
    /\ managers' = [i \in DOMAIN managers |->
                       IF \E u \in DOMAIN userManagers : userManagers[u] = i
                       THEN [managers[i] EXCEPT !.state = "stopping"]
                       ELSE managers[i]]
    /\ UNCHANGED << enableSharding, notifiers, nobjs,
                    disk, configUpdatesTotal, ringCheckErrors, inRing >>
    /\ UNCHANGED otherVars

\* ListAllRuleGroups fails: loadRules logs and returns.
LoadRulesStoreErr ==
    /\ pc \in {"start", "idle"}
    /\ tickNo < TickBound
    /\ faults < MaxFaults
    /\ faults' = faults + 1
    /\ tickNo' = tickNo + 1
    /\ pc' = "idle"
    /\ configs' = NoCfg
    /\ remaining' = {}
    /\ prev' = Summary(tick, configs)
    /\ tick' = [NoTick EXCEPT !.outcome = "storeErr", !.pre = Snapshot]
    /\ lastSync' = NoSync
    /\ UNCHANGED << enableSharding, userManagers, managers, notifiers, nobjs,
                    disk, configUpdatesTotal, ringCheckErrors, inRing >>
    /\ UNCHANGED otherVars

\* ListAllRuleGroups returns cfg: loadRules enters "for user, cfg := range configs".
LoadRulesPoll(cfg) ==
    /\ pc \in {"start", "idle"}
    /\ tickNo < TickBound
    /\ tickNo' = tickNo + 1
    /\ pc' = "iter"
    /\ configs' = cfg
    /\ remaining' = DOMAIN cfg
    /\ prev' = Summary(tick, configs)
    /\ tick' = [NoTick EXCEPT !.outcome = "running", !.pre = Snapshot]
    /\ lastSync' = NoSync
    /\ UNCHANGED << enableSharding, userManagers, managers, notifiers, nobjs,
                    disk, configUpdatesTotal, ringCheckErrors, inRing, faults >>
    /\ UNCHANGED otherVars

\* One iteration of the loop over configs (Go iterates a map in any order):
\* the shard filter, then syncManager; a ring error returns from loadRules.
\* fault names the call that fails in this iteration, if any.
LoadRulesTenant(user, ringGet, fault) ==
    /\ pc = "iter"
    /\ user \in remaining
    /\ fault # "none" => faults < MaxFaults
    /\ LET f == FilterGroups(enableSharding, configs[user], ringGet, SelfAddr)
       IN  IF f.err
           THEN /\ fault = "ring"
                /\ faults' = faults + 1
                /\ ringCheckErrors' = ringCheckErrors + 1
                /\ pc' = "idle"
                /\ remaining' = {}
                /\ tick' = [tick EXCEPT !.outcome = "ringAbort"]
                /\ lastSync' = NoSync
                /\ UNCHANGED << userManagers, managers, notifiers, nobjs, disk,
                                configUpdatesTotal >>
           ELSE LET s == syncManager(user, f.filtered, fault = "map",
                                     fault = "create", fault = "update")
                    o == s.obs
                IN  /\ o.err = fault
                    /\ faults' = IF fault = "none" THEN faults ELSE faults + 1
                    /\ userManagers' = s.um
                    /\ managers' = s.mgrs
                    /\ notifiers' = s.pool
                    /\ nobjs' = s.objs
                    /\ disk' = s.disk
                    /\ configUpdatesTotal' = s.cut
                    /\ lastSync' = [o EXCEPT !.inc = s.cut[user] - configUpdatesTotal[user]]
                    /\ remaining' = remaining \ {user}
                    /\ tick' = [tick EXCEPT
                          !.filtered = [u \in DOMAIN @ \cup {user} |->
                                           IF u = user THEN f.filtered ELSE @[u]],
                          !.ring = IF enableSharding
                                   THEN [u \in DOMAIN @ \cup {user} |->
                                            IF u = user THEN ringGet ELSE @[u]]
                                   ELSE @,
                          !.errored = IF o.err # "none" THEN @ \cup {user} ELSE @,
                          !.mapErrs = IF o.err = "map" THEN @ \cup {user} ELSE @,
                          !.updErrs = IF o.err = "update" THEN @ \cup {user} ELSE @,
                          !.wrote = IF o.wrote THEN @ \cup {user} ELSE @,
                          !.incd = IF s.cut[user] # configUpdatesTotal[user]
                                   THEN @ \cup {user} ELSE @,
                          !.updated = IF o.updateCalled THEN @ \cup {user} ELSE @]
                    /\ UNCHANGED << pc, ringCheckErrors >>
    /\ UNCHANGED << enableSharding, tickNo, configs, inRing, prev >>
    /\ UNCHANGED otherVars

\* A plausible slip: the test "!exists" is inverted.
DeletedUsersInverted(um, cfg) == { u \in DOMAIN um : u \in DOMAIN cfg }

\* A plausible slip: nothing is ever found deleted.
DeletedUsersNone(um, cfg) == {}

\* "Check for deleted users": the registered tenants absent from configs.
DeletedUsers(um, cfg) == { u \in DOMAIN um : u \notin DOMAIN cfg }

\* The end of loadRules: for each deleted user "go mngr.Stop()" and
\* delete(r.userManagers, user).
LoadRulesDrop ==
    /\ pc = "iter"
    /\ remaining = {}
    /\ LET del == DeletedUsers(userManagers, configs)
           ids == { userManagers[u] : u \in del }
       IN  /\ managers' = [i \in DOMAIN managers |->
                              IF i \in ids
                              THEN [managers[i] EXCEPT !.state = "stopping"]
                              ELSE managers[i]]
           /\ userManagers' = [u \in DOMAIN userManagers \ del |-> userManagers[u]]
           /\ tick' = [tick EXCEPT !.outcome = "done", !.stopped = ids]
    /\ pc' = "idle"
    /\ lastSync' = NoSync
    /\ UNCHANGED << enableSharding, tickNo, configs, remaining, notifiers, nobjs,
                    disk, configUpdatesTotal, ringCheckErrors, inRing, faults, prev >>
    /\ UNCHANGED otherVars

\* A goroutine "go mngr.Stop()" started by loadRules returns.
ManagerStopped(i) ==
    /\ i \in DOMAIN managers
    /\ managers[i].state = "stopping"
    /\ managers' = [managers EXCEPT ![i].state = "stopped"]
    /\ UNCHANGED << enableSharding, pc, tickNo, configs, remaining, userManagers,
                    notifiers, nobjs, disk, configUpdatesTotal, ringCheckErrors,
                    inRing, faults, tick, prev, lastSync >>
    /\ UNCHANGED otherVars

(***************************************************************************)
(* run and stopping.                                                       *)
(***************************************************************************)
\* run: "case <-ctx.Done(): return nil"; the service then calls stopping.
\* The observations of the ticks end with the loop.
Cancel ==
    /\ pc = "idle"
    /\ pc' = "stopping"
    /\ configs' = NoCfg
    /\ tick' = NoTick
    /\ prev' = Summary(NoTick, NoCfg)
    /\ UNCHANGED << enableSharding, tickNo, remaining, userManagers,
                    managers, notifiers, nobjs, disk, configUpdatesTotal,
                    ringCheckErrors, inRing, faults, lastSync >>
    /\ UNCHANGED otherVars

\* stopping: n.stop() for every notifier of r.notifiers.
StopNotifiers ==
    /\ pc = "stopping"
    /\ pc' = "notifiersStopped"
    /\ nobjs' = [i \in DOMAIN nobjs |->
                    IF \E u \in DOMAIN notifiers : notifiers[u] = i
                    THEN [nobjs[i] EXCEPT !.running = FALSE]
                    ELSE nobjs[i]]
    /\ UNCHANGED << enableSharding, tickNo, configs, remaining, userManagers,
                    managers, notifiers, disk, configUpdatesTotal,
                    ringCheckErrors, inRing, faults, tick, prev, lastSync >>
    /\ UNCHANGED otherVars

\* stopping: StopManagerAndAwaitStopped(r.subservices) when sharding is on.
StopSubservices ==
    /\ pc = "notifiersStopped"
    /\ pc' = "ringLeft"
    /\ inRing' = FALSE
    /\ UNCHANGED << enableSharding, tickNo, configs, remaining, userManagers,
                    managers, notifiers, nobjs, disk, configUpdatesTotal,
                    ringCheckErrors, faults, tick, prev, lastSync >>
    /\ UNCHANGED otherVars

\* stopping: manager.Stop() for every manager of r.userManagers, awaited.
StopManagers ==
    /\ pc = "ringLeft"
    /\ pc' = "terminated"
    /\ managers' = [i \in DOMAIN managers |->
                       IF \E u \in DOMAIN userManagers : userManagers[u] = i
                       THEN [managers[i] EXCEPT !.state = "stopped"]
                       ELSE managers[i]]
    /\ UNCHANGED << enableSharding, tickNo, configs, remaining, userManagers,
                    notifiers, nobjs, disk, configUpdatesTotal,
                    ringCheckErrors, inRing, faults, tick, prev, lastSync >>
    /\ UNCHANGED otherVars

Next ==
    \/ LoadRulesStoreErr
    \/ \E cfg \in Polls : LoadRulesPoll(cfg)
    \/ \E user \in remaining :
         \E ringGet \in [KeysOf(configs[user]) -> RingResults] :
           \E fault \in Faults :
             LoadRulesTenant(user, ringGet, fault)
    \/ LoadRulesDrop
    \/ \E i \in DOMAIN managers : ManagerStopped(i)
    \/ Cancel
    \/ StopNotifiers
    \/ StopSubservices
    \/ StopManagers

Spec == Init /\ [][Next]_vars

\* The ruler in its default configuration (-ruler.enable-sharding=false).
InitUnsharded == Init /\ enableSharding = FALSE
SpecUnsharded == InitUnsharded /\ [][Next]_vars

(***************************************************************************)
(* Properties of the sync loop.                                            *)
(***************************************************************************)
T == DOMAIN configs
TickOver == pc = "idle"
Unchanged ==
    /\ userManagers = tick.pre.um
    /\ LoadedOf(userManagers, managers) = tick.pre.loaded
    /\ disk = tick.pre.disk
    /\ configUpdatesTotal = tick.pre.cut

\* C1: with sharding enabled, a tick in which ownsRule failed leaves the
\* registry, every evaluator's loaded files, the rule files on disk and
\* config_updates_total as they were before the tick.
C1_RingErrorAppliesNothing ==
    (enableSharding /\ TickOver /\ tick.outcome = "ringAbort") => Unchanged

StopInvoked(i) == managers[i].state \in {"stopping", "stopped"}

\* The registered tenants absent from the poll are stopped and removed.
AbsentDropped ==
    \A u \in DOMAIN tick.pre.um \ T :
        u \notin DOMAIN userManagers /\ StopInvoked(tick.pre.um[u])

\* No tenant of the poll was removed or stopped.
PresentKept ==
    /\ \A u \in DOMAIN tick.pre.um \cap T :
          /\ u \in DOMAIN userManagers
          /\ userManagers[u] = tick.pre.um[u]
    /\ \A u \in DOMAIN userManagers : managers[userManagers[u]].state = "running"
    /\ \A i \in tick.stopped : managers[i].user \notin T

\* C3 as stated: after every tick whose poll succeeded, the registered tenants
\* absent from the poll are stopped and removed and no polled tenant is.
C3_DropAfterEveryPoll ==
    (TickOver /\ tick.outcome \in {"done", "ringAbort"}) =>
        (AbsentDropped /\ PresentKept)

\* C3 amended: after every tick whose poll succeeded and that was not aborted
\* by a ring error, the registered tenants absent from the poll are stopped
\* and removed and no polled tenant is removed or stopped.
C3_DropAfterCompletedTick ==
    (TickOver /\ tick.outcome = "done") => (AbsentDropped /\ PresentKept)

\* A completed tick that dropped one registered tenant and kept another.
C3_Witness ==
    /\ TickOver /\ tick.outcome = "done"
    /\ DOMAIN tick.pre.um \ T # {}
    /\ DOMAIN tick.pre.um \cap T # {}
    /\ tick.stopped # {}

RegistryWithinPoll ==
    DOMAIN userManagers \subseteq T \cup (DOMAIN tick.pre.um \cap tick.errored)

\* C4 as stated: once a tick whose poll returned T has finished, aborted by a
\* ring error or not, the registered tenants are among T and the previously
\* registered tenants whose processing failed in the tick.
C4_RegistryWithinPollAlways ==
    (TickOver /\ tick.outcome \in {"done", "ringAbort"}) => RegistryWithinPoll

\* C4 amended: once a tick whose poll returned T has run to completion, with
\* or without per-tenant errors, the registered tenants are among T and the
\* previously registered tenants whose processing failed in the tick.
C4_RegistryWithinPollCompleted ==
    (TickOver /\ tick.outcome = "done") => RegistryWithinPoll

\* A completed tick with a per-tenant error and a registered tenant absent
\* from the poll.
C4_Witness ==
    /\ TickOver /\ tick.outcome = "done"
    /\ tick.errored # {}
    /\ DOMAIN tick.pre.um \ T # {}
    /\ DOMAIN userManagers # {}

NotifiersStoppedAt == {"notifiersStopped", "ringLeft", "terminated"}

\* C5: until stopping stops the notifiers, a tenant's notifier stays in the
\* pool, is the same notifier and is running, whatever happens to the
\* tenant's evaluator; an evaluator created for the tenant uses it.
C5_NotifierOutlivesEvaluator ==
    [][ pc' \notin NotifiersStoppedAt =>
          /\ \A u \in DOMAIN notifiers :
                /\ u \in DOMAIN notifiers'
                /\ notifiers'[u] = notifiers[u]
          /\ \A u \in DOMAIN notifiers' : nobjs'[notifiers'[u]].running
          /\ \A u \in DOMAIN userManagers' :
                /\ u \in DOMAIN notifiers'
                /\ managers'[userManagers'[u]].notifier = notifiers'[u] ]_vars

\* A tenant whose evaluator was dropped and created again around the
\* notifier of the first one.
C5_Witness ==
    \E u \in DOMAIN userManagers : \E i \in DOMAIN managers :
        /\ i # userManagers[u]
        /\ managers[i].user = u
        /\ StopInvoked(i)
        /\ u \in DOMAIN notifiers
        /\ managers[i].notifier = notifiers[u]
        /\ managers[userManagers[u]].notifier = notifiers[u]
        /\ nobjs[notifiers[u]].running

\* C6: when syncManager returns without a mapper, creation or update error,
\* the registry holds an evaluator for the tenant.
C6_SyncEnsuresEvaluator ==
    (lastSync.user # None /\ lastSync.err = "none") =>
        lastSync.user \in DOMAIN userManagers

\* Two consecutive completed ticks with the same poll data and ownership.
Repeated ==
    /\ TickOver /\ tick.outcome = "done"
    /\ prev.outcome = "done"
    /\ prev.configs = configs
    /\ prev.filtered = tick.filtered

SecondTickIdle ==
    /\ tick.wrote = {}
    /\ tick.incd = {}
    /\ tick.updated = {}
    /\ Unchanged

\* C7 as stated: the second of two consecutive ticks with identical poll data
\* and ring ownership rewrites no file, increments no counter, updates no
\* evaluator and leaves the registry unchanged.
C7_SecondTickIdle == Repeated => SecondTickIdle

\* C7 amended: the same, when the first of the two ticks had no mapper error.
C7_SecondTickIdleAfterCleanTick ==
    (Repeated /\ prev.mapErrs = {}) => SecondTickIdle

\* Two such ticks over a tenant that has an evaluator.
C7_Witness ==
    /\ Repeated /\ prev.mapErrs = {}
    /\ T # {}
    /\ DOMAIN userManagers # {}
    /\ \E u \in T : tick.filtered[u] # << >>

\* C8: a syncManager call increments config_updates_total{user} by one if
\* the mapper reported a change and the evaluator was given the files through
\* Update, and not at all otherwise.
C8_CounterCountsFileSetChanges ==
    lastSync.user # None =>
        /\ lastSync.inc \in {0, 1}
        /\ lastSync.inc = 1 <=> (lastSync.update /\ lastSync.updateCalled)

(***************************************************************************)
(* A fleet of rulers, each running loadRules once over the same poll       *)
(* result and the same ring snapshot.  Of each replica the model keeps the *)
(* filteredGroups it hands to syncManager.                                 *)
(***************************************************************************)
FleetPolls ==
    UNION { { f \in [S -> UNION { FleetLists(u) : u \in S }] :
                \A u \in S : f[u] \in FleetLists(u) } : S \in SUBSET Tenants }

InitFleet ==
    /\ InitRuler /\ IdleAlerts /\ IdleReq /\ IdleAux
    /\ shRing \in [Keys -> RingResults]
    /\ shConfigs \in FleetPolls
    /\ shPc = [r \in Replicas |-> "idle"]
    /\ shRemaining = [r \in Replicas |-> {}]
    /\ shFiltered = [r \in Replicas |-> NoCfg]

\* Replica r: ListAllRuleGroups returns the poll result.
FleetPoll(r) ==
    /\ shPc[r] = "idle"
    /\ shPc' = [shPc EXCEPT ![r] = "iter"]
    /\ shRemaining' = [shRemaining EXCEPT ![r] = DOMAIN shConfigs]
    /\ UNCHANGED << shRing, shConfigs, shFiltered >>
    /\ UNCHANGED << rulerVars, alertVars, lastReq, auxVars >>

\* Replica r: one iteration of the loop over configs.
FleetTenant(r, user) ==
    /\ shPc[r] = "iter"
    /\ user \in shRemaining[r]
    /\ LET f == FilterGroups(enableSharding, shConfigs[user], shRing, r)
       IN  IF f.err
           THEN /\ shPc' = [shPc EXCEPT ![r] = "aborted"]
                /\ shRemaining' = [shRemaining EXCEPT ![r] = {}]
                /\ UNCHANGED shFiltered
           ELSE /\ shFiltered' =
                      [shFiltered EXCEPT
                         ![r] = [u \in DOMAIN @ \cup {user} |->
                                    IF u = user THEN f.filtered ELSE @[u]]]
                /\ shRemaining' = [shRemaining EXCEPT ![r] = @ \ {user}]
                /\ UNCHANGED shPc
    /\ UNCHANGED << shRing, shConfigs >>
    /\ UNCHANGED << rulerVars, alertVars, lastReq, auxVars >>

\* Replica r: the loop over configs is over and loadRules returns.
FleetDone(r) ==
    /\ shPc[r] = "iter"
    /\ shRemaining[r] = {}
    /\ shPc' = [shPc EXCEPT ![r] = "done"]
    /\ UNCHANGED << shRing, shConfigs, shRemaining, shFiltered >>
    /\ UNCHANGED << rulerVars, alertVars, lastReq, auxVars >>

NextFleet ==
    \/ \E r \in Replicas : FleetPoll(r)
    \/ \E r \in Replicas : \E user \in shRemaining[r] : FleetTenant(r, user)
    \/ \E r \in Replicas : FleetDone(r)

SpecFleet == InitFleet /\ [][NextFleet]_vars

Retained(r, g) == g \in Range(shFiltered[r][g.user])

\* C2: with sharding enabled, once every replica has completed its tick over
\* the same poll and ring snapshot, each rule group is retained by exactly
\* one replica: the one whose address is the ring's owner of its shard key.
C2_OneOwnerPerGroup ==
    (enableSharding /\ \A r \in Replicas : shPc[r] = "done") =>
        \A u \in DOMAIN shConfigs : \A i \in DOMAIN shConfigs[u] :
            LET g == shConfigs[u][i]
            IN  /\ \A r \in Replicas :
                      Retained(r, g) <=> (r = shRing[ShardKey(g)])
                /\ Cardinality({ r \in Replicas : Retained(r, g) }) = 1

\* Every replica is done and each one retains a group of a two-tenant poll.
C2_Witness ==
    /\ enableSharding
    /\ \A r \in Replicas : shPc[r] = "done"
    /\ DOMAIN shConfigs = Tenants
    /\ \A r \in Replicas : \E u \in Tenants : shFiltered[r][u] # << >>

(***************************************************************************)
(* sendAlerts.                                                             *)
(***************************************************************************)
AlertStates == {"inactive", "pending", "firing"}
ZeroTime == 0
\* promRules.Alert: State, FiredAt, ResolvedAt (a zero ResolvedAt is unset).
Alerts == [state : AlertStates, firedAt : {1, 2}, resolvedAt : {ZeroTime, 3}]

SeqsUpTo(S, n) == UNION { [1..k -> S] : k \in 0..n }

\* The notifier.Alert built for one alert.
NotifierAlert(alert) ==
    [startsAt |-> alert.firedAt,
     endsAt |-> IF alert.resolvedAt # ZeroTime THEN alert.resolvedAt ELSE ZeroTime]

RECURSIVE SendLoop(_, _, _)
SendLoop(alerts, i, res) ==
    IF i > Len(alerts) THEN res
    ELSE IF alerts[i].state = "pending"
         THEN SendLoop(alerts, i + 1, res)
         ELSE SendLoop(alerts, i + 1, Append(res, NotifierAlert(alerts[i])))

\* The NotifyFunc returned by sendAlerts: whether n.Send is called, and
\* with which batch.
sendAlerts(alerts) ==
    LET res == SendLoop(alerts, 1, << >>)
    IN  IF Len(alerts) > 0
        THEN [called |-> TRUE, send |-> TRUE, batch |-> res]
        ELSE [called |-> TRUE, send |-> FALSE, batch |-> << >>]

InitAlerts ==
    /\ InitRuler /\ IdleShard /\ IdleReq /\ IdleAux
    /\ alertsIn \in SeqsUpTo(Alerts, MaxAlerts)
    /\ sent = NotSent

\* A rule manager calls the NotifyFunc with alertsIn.
Notify ==
    /\ sent = NotSent
    /\ sent' = sendAlerts(alertsIn)
    /\ UNCHANGED alertsIn
    /\ UNCHANGED << rulerVars, shardVars, lastReq, auxVars >>

NextAlerts == Notify

SpecAlerts == InitAlerts /\ [][NextAlerts]_vars

RECURSIVE MapAlerts(_, _)
MapAlerts(alerts, i) ==
    IF i > Len(alerts) THEN << >>
    ELSE << [startsAt |-> alerts[i].firedAt, endsAt |-> alerts[i].resolvedAt] >>
         \o MapAlerts(alerts, i + 1)

\* C9: the batch handed to Send holds no alert that was Pending and exactly
\* one alert per Firing input, none for any other input, each with startsAt
\* = firedAt and endsAt = resolvedAt when that is set.
C9_SendsExactlyFiring ==
    sent.send =>
        sent.batch = MapAlerts(SelectSeq(alertsIn, LAMBDA a : a.state = "firing"), 1)

(***************************************************************************)
(* The Do callback of a tenant's notifier.                                 *)
(***************************************************************************)
\* A plausible slip: the tenant is not injected and the request carries
\* whatever tenant the notifier's context has.
NotifierDoNoInject(userID, ctxTenant, header) ==
    IF ctxTenant = None \/ (header # None /\ header # ctxTenant)
    THEN [issued |-> FALSE, header |-> header]
    ELSE [issued |-> TRUE, header |-> ctxTenant]

\* Do of getOrCreateNotifier for userID: ctxTenant is the org ID of the
\* context passed in (None: none), header the org ID header the request
\* already has (None: none).  user.InjectOrgID overrides the context's org
\* ID; user.InjectOrgIDIntoHTTPRequest fails when the request has another
\* org ID and sets the header otherwise; the request is then sent.
NotifierDo(userID, ctxTenant, header) ==
    LET orgID == userID
    IN  IF header # None /\ header # orgID
        THEN [issued |-> FALSE, header |-> header]
        ELSE [issued |-> TRUE, header |-> orgID]

InitNotify == Init

\* newManager asks for the notifier of userID.
GetNotifier(userID, cfgErr) ==
    /\ Len(nobjs) < MaxNotifiers
    /\ LET g == getOrCreateNotifier(notifiers, nobjs, userID, cfgErr)
       IN  /\ notifiers' = g.pool
           /\ nobjs' = g.objs
    /\ UNCHANGED << enableSharding, pc, tickNo, configs, remaining, userManagers,
                    managers, disk, configUpdatesTotal, ringCheckErrors, inRing,
                    faults, tick, prev, lastSync >>
    /\ UNCHANGED << shardVars, alertVars, lastReq, auxVars >>

\* The notifier n sends a request through its Do callback.
Deliver(n, ctxTenant, header) ==
    /\ n \in DOMAIN nobjs
    /\ nobjs[n].running
    /\ lastReq' = [notifier |-> n, ctx |-> ctxTenant]
                     @@ NotifierDo(nobjs[n].user, ctxTenant, header)
    /\ UNCHANGED << rulerVars, shardVars, alertVars, auxVars >>

NextNotify ==
    \/ \E userID \in Tenants : \E cfgErr \in BOOLEAN : GetNotifier(userID, cfgErr)
    \/ \E n \in DOMAIN nobjs : \E ctxTenant, header \in Tenants \cup {None} :
         Deliver(n, ctxTenant, header)

SpecNotify == InitNotify /\ [][NextNotify]_vars

\* C10: every request a tenant's notifier issues carries that tenant in the
\* tenant header, whatever tenant the context handed to Do carries, and the
\* header does not depend on that context.
C10_HeaderIsNotifiersTenant ==
    /\ (lastReq.notifier # 0 /\ lastReq.issued) =>
          lastReq.header = nobjs[lastReq.notifier].user
    /\ \A n \in DOMAIN nobjs : \A c1, c2, h \in Tenants \cup {None} :
          NotifierDo(nobjs[n].user, c1, h) = NotifierDo(nobjs[n].user, c2, h)

\* A request issued under a context that carries another tenant.
C10_Witness ==
    /\ lastReq.notifier # 0
    /\ lastReq.issued
    /\ lastReq.ctx \in Tenants \ {nobjs[lastReq.notifier].user}
    /\ lastReq.header = nobjs[lastReq.notifier].user

(***************************************************************************)
(* GetRules: the rules of one tenant, gathered from every ruler of the     *)
(* ring when sharding is enabled.                                          *)
(***************************************************************************)
\* The ring members GetRules can be told of.
Replicas3 == {"r1", "r2", "r3"}
PeerFailures == {"none", "dial", "rpc"}

\* What a ruler's evaluator reports for a tenant (the group names, in the
\* evaluator's order).
LocalLists == { << >>, << "g1" >>, << "g2", "g1" >> }

\* The sequences of distinct replicas of length at most two.
Enumerations ==
    { << >> } \cup { << r >> : r \in Replicas3 }
              \cup { x \in Replicas3 \X Replicas3 : x[1] # x[2] }

\* Ruler.Rules on replica rlr: user.ExtractOrgID(ctx), then getLocalRules.
Rules(local, rlr, ctxOrg) ==
    IF ctxOrg = None
    THEN [groups |-> << >>, err |-> TRUE]
    ELSE [groups |-> local[rlr][ctxOrg], err |-> FALSE]

\* A plausible slip: a replica that cannot be reached is passed over.
ShardedLoopSkipping(ingesters, i, rgs, fail, local, ctxOrg) ==
    LET RECURSIVE Go(_, _)
        Go(j, acc) ==
            IF j > Len(ingesters) THEN [groups |-> acc, err |-> FALSE]
            ELSE IF fail[ingesters[j]] # "none"
                 THEN Go(j + 1, acc)
                 ELSE Go(j + 1, acc \o Rules(local, ingesters[j], ctxOrg).groups)
    IN  Go(i, rgs)

\* "for _, rlr := range rulers.Ingesters" of getShardedRules: grpc.Dial,
\* then cc.Rules; the first failure returns nil and the error.
RECURSIVE ShardedLoop(_, _, _, _, _, _)
ShardedLoop(ingesters, i, rgs, fail, local, ctxOrg) ==
    IF i > Len(ingesters)
    THEN [groups |-> rgs, err |-> FALSE]
    ELSE LET rlr == ingesters[i]
             newGrps == Rules(local, rlr, ctxOrg)
         IN  IF fail[rlr] = "dial"
             THEN [groups |-> << >>, err |-> TRUE]
             ELSE IF fail[rlr] = "rpc" \/ newGrps.err
                  THEN [groups |-> << >>, err |-> TRUE]
                  ELSE ShardedLoop(ingesters, i + 1, rgs \o newGrps.groups,
                                   fail, local, ctxOrg)

\* Ruler.getShardedRules: r.ring.GetAll(), user.InjectIntoGRPCRequest(ctx)
\* (fails when the context has no org ID), then the loop over the rulers.
getShardedRules(rulers, fail, local, ctxOrg) ==
    IF rulers.err
    THEN [groups |-> << >>, err |-> TRUE]
    ELSE IF ctxOrg = None
         THEN [groups |-> << >>, err |-> TRUE]
         ELSE ShardedLoop(rulers.ingesters, 1, << >>, fail, local, ctxOrg)

\* Ruler.getLocalRules of this replica for userID (it never fails for the
\* rule types of Prometheus).
getLocalRules(local, userID) == [groups |-> local[SelfAddr][userID], err |-> FALSE]

\* Ruler.GetRules(ctx, userID).
GetRules(sharding, rulers, fail, local, ctxOrg, userID) ==
    IF sharding
    THEN getShardedRules(rulers, fail, local, ctxOrg)
    ELSE getLocalRules(local, userID)

InitInspect ==
    /\ InitRuler /\ IdleShard /\ IdleAlerts /\ IdleReq /\ IdleLocks /\ IdleRun
    /\ insRing \in { [err |-> TRUE, ingesters |-> << >>] }
                   \cup { [err |-> FALSE, ingesters |-> e] : e \in Enumerations }
    /\ insCtx \in {"a", None}
    /\ insFail \in [Replicas3 -> PeerFailures]
    /\ insLocal \in [Replicas3 -> [{"a"} -> LocalLists]]
    /\ insOut = NoRules

\* The API asks this ruler for the rules of the tenant of its context.
GetRulesCall ==
    /\ ~insOut.called
    /\ insOut' = [called |-> TRUE] @@
                    GetRules(enableSharding, insRing, insFail, insLocal, insCtx, "a")
    /\ UNCHANGED << insRing, insCtx, insFail, insLocal >>
    /\ UNCHANGED << rulerVars, shardVars, alertVars, lastReq, lockVars, runVars >>

NextInspect == GetRulesCall

SpecInspect == InitInspect /\ [][NextInspect]_vars

\* The replicas the ring enumerates, in its order.
Enumerated == insRing.ingesters

\* Enumerating the ring, dialing a replica or a replica's Rules RPC fails.
InspectionFails ==
    \/ insRing.err
    \/ \E i \in DOMAIN Enumerated : insFail[Enumerated[i]] # "none"

RECURSIVE Concat(_, _)
Concat(i, user) ==
    IF i > Len(Enumerated) THEN << >>
    ELSE insLocal[Enumerated[i]][user] \o Concat(i + 1, user)

\* C11: with sharding enabled, GetRules returns an error and no group when
\* enumerating the ring, dialing a replica or a replica's Rules RPC fails
\* (or the caller's context names no tenant), and otherwise exactly the
\* local groups of the enumerated replicas, concatenated in ring order.
C11_ShardedRulesFailClosed ==
    (enableSharding /\ insOut.called) =>
        /\ (InspectionFails \/ insCtx = None) =>
              (insOut.err /\ insOut.groups = << >>)
        /\ (~InspectionFails /\ insCtx # None) =>
              (~insOut.err /\ insOut.groups = Concat(1, insCtx))

\* Two replicas answered with different non-empty lists, in ring order,
\* while a replica outside the enumeration could not be reached.
C11_Witness ==
    /\ enableSharding /\ insOut.called /\ ~insOut.err
    /\ Len(Enumerated) = 2
    /\ insLocal[Enumerated[1]]["a"] = << "g2", "g1" >>
    /\ insLocal[Enumerated[2]]["a"] = << "g1" >>
    /\ insOut.groups = << "g2", "g1", "g1" >>
    /\ \E r \in Replicas3 : insFail[r] # "none"

(***************************************************************************)
(* Properties of stopping.                                                 *)
(***************************************************************************)
Registered == { userManagers[u] : u \in DOMAIN userManagers }
Pooled == { notifiers[u] : u \in DOMAIN notifiers }

\* The replica has left the ring: the ring and lifecycler subservices that
\* starting had started are stopped.
RingLeft == enableSharding /\ ~inRing

\* C12: in stopping the notifiers are stopped first, then the evaluators of
\* the registry are stopped and awaited, and the ring is left last: the
\* replica has never left the ring while a registered evaluator still runs.
C12_EvaluatorsStopBeforeRingLeft ==
    /\ pc \in NotifiersStoppedAt => \A n \in Pooled : ~nobjs[n].running
    /\ RingLeft =>
          /\ \A n \in Pooled : ~nobjs[n].running
          /\ \A i \in Registered : managers[i].state = "stopped"

\* C13: when stopping has returned, no notifier delivery loop and no
\* evaluator this ruler ever started is still running, the evaluators of
\* tenants dropped earlier and the notifiers whose construction failed
\* included.
C13_NothingRunsAfterStopping ==
    pc = "terminated" =>
        /\ \A n \in DOMAIN nobjs : ~nobjs[n].running
        /\ \A i \in DOMAIN managers : managers[i].state = "stopped"

(***************************************************************************)
(* The two mutexes of the ruler, r.userManagerMtx and r.notifiersMtx, and  *)
(* the operations that take them, run by concurrent threads (the run       *)
(* goroutine, API requests, the service's stopping).                       *)
(***************************************************************************)
Lock(m) == [act |-> "lock", mtx |-> m]
Unlock(m) == [act |-> "unlock", mtx |-> m]

\* syncManagerNew is a syncManager call that reaches newManager;
\* dropUsers is the end of loadRules.
LockOps == {"syncManager", "syncManagerNew", "dropUsers", "getLocalRules",
            "stopping"}

\* A step of an operation that is no mutex operation.
Do(what) == [act |-> what, mtx |-> None]

\* getOrCreateNotifier: r.notifiersMtx.Lock(); defer r.notifiersMtx.Unlock();
\* in between the lookup and, for a new tenant, the new notifier.
NotifierLocks ==
    << Lock("notifiersMtx"), Do("getNotifier"), Unlock("notifiersMtx") >>

\* A plausible slip: the rule files are mapped before the registry mutex
\* is taken.
SyncManagerStepsMapsUnlocked(new) ==
    << Do("MapRules"), Lock("userManagerMtx"), Do("lookup") >>
       \o (IF new THEN NotifierLocks \o << Do("insert") >> ELSE << >>)
       \o << Do("Update"), Unlock("userManagerMtx") >>

\* syncManager: r.userManagerMtx.Lock(); defer r.userManagerMtx.Unlock();
\* MapRules; r.userManagers[user]; for a tenant without manager newManager
\* (which calls getOrCreateNotifier) and r.userManagers[user] = manager;
\* manager.Update.
SyncManagerSteps(new) ==
    << Lock("userManagerMtx"), Do("MapRules"), Do("lookup") >>
       \o (IF new THEN NotifierLocks \o << Do("insert") >> ELSE << >>)
       \o << Do("Update"), Unlock("userManagerMtx") >>

\* A plausible slip: stopping takes the registry mutex before it has
\* released the notifier mutex.
ProgramNestedStopping(op) ==
    CASE op = "syncManager" -> SyncManagerSteps(FALSE)
      [] op = "syncManagerNew" -> SyncManagerSteps(TRUE)
      [] op = "dropUsers" ->
            << Lock("userManagerMtx"), Do("delete"), Unlock("userManagerMtx") >>
      [] op = "getLocalRules" ->
            << Lock("userManagerMtx"), Do("RuleGroups"),
               Unlock("userManagerMtx") >>
      [] op = "stopping" ->
            << Lock("notifiersMtx"), Do("stopNotifiers"),
               Lock("userManagerMtx"), Do("stopManagers"),
               Unlock("userManagerMtx"), Unlock("notifiersMtx") >>

\* The steps of each operation, in program order.
Program(op) ==
    CASE op = "syncManager" -> SyncManagerSteps(FALSE)
      [] op = "syncManagerNew" -> SyncManagerSteps(TRUE)
      [] op = "dropUsers" ->
            \* the end of loadRules: delete(r.userManagers, user)
            << Lock("userManagerMtx"), Do("delete"), Unlock("userManagerMtx") >>
      [] op = "getLocalRules" ->
            << Lock("userManagerMtx"), Do("RuleGroups"),
               Unlock("userManagerMtx") >>
      [] op = "stopping" ->
            << Lock("notifiersMtx"), Do("stopNotifiers"),
               Unlock("notifiersMtx"),
               Lock("userManagerMtx"), Do("stopManagers"),
               Unlock("userManagerMtx") >>

InitLocks ==
    /\ InitRuler /\ IdleShard /\ IdleAlerts /\ IdleReq /\ IdleInspect /\ IdleRun
    /\ IdleLocks

\* Thread t enters operation op.
BeginOp(t, op) ==
    /\ lkAt[t].op = None
    /\ lkAt' = [lkAt EXCEPT ![t] = [op |-> op, i |-> 1]]
    /\ UNCHANGED lkOwner
    /\ UNCHANGED << rulerVars, shardVars, alertVars, lastReq, inspectVars, runVars >>

\* The step thread t is at.
NextStep(t) == Program(lkAt[t].op)[lkAt[t].i]

\* Thread t performs its next step; Lock blocks while the mutex is held
\* (sync.Mutex is not reentrant).  After its last step the thread has left
\* the operation.
StepOp(t) ==
    /\ lkAt[t].op # None
    /\ LET st == NextStep(t)
           last == lkAt[t].i = Len(Program(lkAt[t].op))
       IN  /\ CASE st.act = "lock" ->
                     /\ lkOwner[st.mtx] = None
                     /\ lkOwner' = [lkOwner EXCEPT ![st.mtx] = t]
                  [] st.act = "unlock" ->
                     lkOwner' = [lkOwner EXCEPT ![st.mtx] = None]
                  [] OTHER -> UNCHANGED lkOwner
           /\ lkAt' = [lkAt EXCEPT
                         ![t] = IF last THEN IdleThread
                                ELSE [@ EXCEPT !.i = @ + 1]]
    /\ UNCHANGED << rulerVars, shardVars, alertVars, lastReq, inspectVars, runVars >>

NextLocks ==
    \/ \E t \in Threads : \E op \in LockOps : BeginOp(t, op)
    \/ \E t \in Threads : StepOp(t)

SpecLocks == InitLocks /\ [][NextLocks]_vars

Holds(t, m) == lkOwner[m] = t
\* Thread t is about to acquire, or is waiting for, mutex m.
Acquiring(t, m) ==
    /\ lkAt[t].op # None
    /\ NextStep(t) = Lock(m)
WaitsFor(t, m) == Acquiring(t, m) /\ lkOwner[m] # None

\* C14: no thread acquires userManagerMtx while it holds notifiersMtx
\* (notifiersMtx is taken alone or under userManagerMtx), and no threads
\* wait for each other's mutex.
C14_LockOrder ==
    /\ \A t \in Threads :
          ~(Holds(t, "notifiersMtx") /\ Acquiring(t, "userManagerMtx"))
    /\ \A t1, t2 \in Threads : \A m1, m2 \in Mutexes :
          ~(/\ WaitsFor(t1, m1) /\ Holds(t2, m1)
            /\ WaitsFor(t2, m2) /\ Holds(t1, m2))

\* A syncManager call holds the registry mutex and waits for the notifier
\* mutex, which stopping holds, while a third thread waits for the registry
\* mutex.
C14_Witness ==
    \E t1, t2, t3 \in Threads :
        /\ lkAt[t1].op = "syncManagerNew"
        /\ Holds(t1, "userManagerMtx") /\ WaitsFor(t1, "notifiersMtx")
        /\ lkAt[t2].op = "stopping" /\ Holds(t2, "notifiersMtx")
        /\ lkAt[t3].op = "getLocalRules" /\ WaitsFor(t3, "userManagerMtx")

(***************************************************************************)
(* One evaluator and one notifier per tenant.                              *)
(***************************************************************************)
\* The evaluators of tenant u that were started and have not fully stopped.
Alive(u) ==
    { i \in DOMAIN managers :
        managers[i].user = u /\ managers[i].state \in {"running", "stopping"} }

\* C15: for each tenant at most one evaluator is started and not yet fully
\* stopped; the evaluator of a dropped tenant has finished stopping before
\* a new one for the tenant runs.
C15_OneEvaluatorPerTenant ==
    \A u \in Tenants : Cardinality(Alive(u)) <= 1

\* The notifiers built for tenant u: each one's delivery loop was started
\* ("go n.run()").
StartedFor(u) == { n \in DOMAIN nobjs : nobjs[n].user = u }

\* C16: over any sequence of getOrCreateNotifier calls, failing ones
\* included, at most one delivery loop is ever started for a tenant and
\* every started delivery loop belongs to the notifier stored in the pool.
C16_OneNotifierPerTenant ==
    \A u \in Tenants :
        /\ Cardinality(StartedFor(u)) <= 1
        /\ \A n \in StartedFor(u) : u \in DOMAIN notifiers /\ notifiers[u] = n

(***************************************************************************)
(* Failures inside a tick.                                                 *)
(***************************************************************************)
\* The step is a loadRules call whose ListAllRuleGroups call failed.
StoreErrorTick == tickNo' = tickNo + 1 /\ tick'.outcome = "storeErr"

\* C17: a loadRules call whose ListAllRuleGroups fails returns at once: it
\* asks the ring nothing, maps no file, creates, updates and stops no
\* evaluator and drops no tenant; the registry, the notifier pool and the
\* counters are as before.
C17_StoreErrorSkipsTick ==
    [][ StoreErrorTick =>
          /\ pc' = "idle"
          /\ tick'.filtered = NoCfg /\ tick'.wrote = {} /\ tick'.updated = {}
          /\ tick'.stopped = {}
          /\ UNCHANGED << userManagers, managers, notifiers, nobjs, disk,
                          configUpdatesTotal, ringCheckErrors >> ]_vars

\* A tick skipped on a store error by a ruler that has a registered
\* evaluator, a notifier and rule files.
C17_Witness ==
    /\ pc = "idle" /\ tick.outcome = "storeErr"
    /\ tick.pre.um = userManagers
    /\ DOMAIN userManagers # {}
    /\ DOMAIN notifiers # {}
    /\ \E u \in Tenants : configUpdatesTotal[u] > 0 /\ disk[u] # NoFiles

\* Tenant u's registry entry and its evaluator's loaded files are as they
\* were before the tick.
EntryUntouched(u) ==
    /\ u \in DOMAIN userManagers <=> u \in DOMAIN tick.pre.um
    /\ u \in DOMAIN userManagers =>
          /\ userManagers[u] = tick.pre.um[u]
          /\ managers[userManagers[u]].loaded = tick.pre.loaded[u]

\* Tenant u's evaluator has loaded what it had before the tick (nothing, for
\* an evaluator the tick created).
LoadedUntouched(u) ==
    /\ u \in DOMAIN userManagers
    /\ IF u \in DOMAIN tick.pre.um
       THEN /\ userManagers[u] = tick.pre.um[u]
            /\ managers[userManagers[u]].loaded = tick.pre.loaded[u]
       ELSE managers[userManagers[u]].loaded = NoFiles

\* syncManager ran for every tenant of the poll, and the files of those
\* without error are the ones of their filtered groups.
OthersSynced ==
    /\ DOMAIN tick.filtered = T
    /\ \A u \in T \ tick.errored : disk[u] = Formatted(tick.filtered[u])

\* C18 as stated: when MapRules, the creation or the update of the evaluator
\* fails for a tenant, its registry entry and loaded files are as before the
\* tick, every other tenant of the poll is synchronised and the absent
\* tenants are dropped.
C18_FailureLeavesTenantUntouched ==
    (TickOver /\ tick.outcome \in {"done", "ringAbort"} /\ tick.errored # {}) =>
        /\ \A u \in tick.errored : EntryUntouched(u)
        /\ OthersSynced
        /\ AbsentDropped

\* C18 amended: in a tick not aborted by a ring error, a tenant whose
\* MapRules call or evaluator creation failed keeps its registry entry and
\* loaded files, a tenant whose Update failed keeps its loaded files (a new
\* tenant is registered with nothing loaded), every other tenant of the poll
\* is synchronised and the absent tenants are dropped.
C18_FailureIsIsolated ==
    (TickOver /\ tick.outcome = "done" /\ tick.errored # {}) =>
        /\ \A u \in tick.errored \ tick.updErrs : EntryUntouched(u)
        /\ \A u \in tick.updErrs : LoadedUntouched(u)
        /\ OthersSynced
        /\ AbsentDropped

\* A completed tick in which one tenant failed and another one had its
\* files written and its evaluator updated.
C18_Witness ==
    /\ TickOver /\ tick.outcome = "done"
    /\ tick.errored # {}
    /\ \E u \in T \ tick.errored : u \in tick.wrote /\ u \in tick.updated

(***************************************************************************)
(* The loop of run: loadRules once, then once per tick of the ticker,      *)
(* until the context is cancelled.                                         *)
(***************************************************************************)
MaxLoads == 3        \* loadRules calls per behaviour of SpecRun

\* How a loadRules call can end: it returns nothing, whatever happened.
Outcomes == {"ok", "storeErr", "ringErr", "mapErr", "managerErr"}

\* A plausible slip: run hands an error of loadRules on and returns.
AfterLoadRulesReturnsOnError(outcome) ==
    IF outcome = "ok" THEN "select" ELSE "returned"

\* Where run goes on when loadRules has returned: the select of the loop.
AfterLoadRules(outcome) == "select"

InitRun ==
    /\ InitRuler /\ IdleShard /\ IdleAlerts /\ IdleReq /\ IdleInspect /\ IdleLocks
    /\ IdleRun

\* run: time.NewTicker(...), then the first r.loadRules(ctx).
RunStartup ==
    /\ runPc = "startup"
    /\ runPc' = "loading"
    /\ loads' = 1
    /\ UNCHANGED << ctxDone, tickC, runLog >>
    /\ UNCHANGED << rulerVars, shardVars, alertVars, lastReq, inspectVars, lockVars >>

\* The loadRules call returns.
LoadRulesReturns(outcome) ==
    /\ runPc = "loading"
    /\ runPc' = AfterLoadRules(outcome)
    /\ runLog' = Append(runLog, outcome)
    /\ UNCHANGED << ctxDone, tickC, loads >>
    /\ UNCHANGED << rulerVars, shardVars, alertVars, lastReq, inspectVars, lockVars >>

\* The ticker sends on tick.C, whose buffer holds one tick; "defer
\* tick.Stop()" ends it.
TickerFires ==
    /\ runPc # "returned"
    /\ tickC = 0
    /\ tickC' = 1
    /\ UNCHANGED << runPc, ctxDone, loads, runLog >>
    /\ UNCHANGED << rulerVars, shardVars, alertVars, lastReq, inspectVars, lockVars >>

\* The service cancels the context of run.
CancelCtx ==
    /\ ~ctxDone
    /\ ctxDone' = TRUE
    /\ UNCHANGED << runPc, tickC, loads, runLog >>
    /\ UNCHANGED << rulerVars, shardVars, alertVars, lastReq, inspectVars, lockVars >>

\* select: "case <-tick.C: r.loadRules(ctx)".
SelectTick ==
    /\ runPc = "select"
    /\ tickC = 1
    /\ loads < MaxLoads
    /\ tickC' = 0
    /\ runPc' = "loading"
    /\ loads' = loads + 1
    /\ UNCHANGED << ctxDone, runLog >>
    /\ UNCHANGED << rulerVars, shardVars, alertVars, lastReq, inspectVars, lockVars >>

\* select: "case <-ctx.Done(): return nil".
SelectDone ==
    /\ runPc = "select"
    /\ ctxDone
    /\ runPc' = "returned"
    /\ UNCHANGED << ctxDone, tickC, loads, runLog >>
    /\ UNCHANGED << rulerVars, shardVars, alertVars, lastReq, inspectVars, lockVars >>

NextRun ==
    \/ RunStartup
    \/ \E outcome \in Outcomes : LoadRulesReturns(outcome)
    \/ TickerFires
    \/ CancelCtx
    \/ SelectTick
    \/ SelectDone

\* The goroutine of run is scheduled, loadRules returns, the ticker keeps
\* ticking, and a select with several ready cases picks among them at
\* random, so a case that is ready again and again is taken.
SpecRun ==
    /\ InitRun /\ [][NextRun]_vars
    /\ WF_vars(RunStartup)
    /\ WF_vars(\E outcome \in Outcomes : LoadRulesReturns(outcome))
    /\ WF_vars(TickerFires)
    /\ WF_vars(SelectTick)
    /\ SF_vars(SelectDone)

\* The k-th loadRules call has ended in an error and run is back in select.
FailedTick(k) ==
    /\ Len(runLog) = k
    /\ runLog[k] # "ok"
    /\ runPc = "select"

\* C19: run calls loadRules once at startup without waiting for a tick and
\* then once per tick; whatever the outcome of a call, the loop goes on and
\* a failed tick is followed by the next one; the loop ends only when the
\* context is cancelled, and then it does end.
C19_SyncLoopLiveness ==
    /\ [][ loads' # loads =>
             /\ loads' = loads + 1
             /\ IF loads = 0 THEN tickC' = tickC
                ELSE tickC = 1 /\ tickC' = 0 ]_vars
    /\ [][ runPc' = "returned" => (ctxDone /\ runPc \in {"select", "returned"}) ]_vars
    /\ <>(loads >= 1)
    /\ \A k \in 1..(MaxLoads - 1) :
          FailedTick(k) ~> (loads > k \/ runPc = "returned")
    /\ ctxDone ~> (runPc = "returned")

\* run has returned after a failed tick that was followed by another tick.
C19_Witness ==
    /\ runPc = "returned"
    /\ Len(runLog) >= 2
    /\ runLog[1] # "ok"

(***************************************************************************)
(* Convergence after a tick aborted by a ring error.                       *)
(***************************************************************************)
\* The registry, with what each evaluator has loaded, after one loadRules
\* call without any failure that starts from the state pre, polls cfg and
\* keeps the groups flt of each tenant: a tenant is synchronised when the
\* mapper reports a change, and the tenants absent from cfg are dropped.
HealthyTick(pre, cfg, flt) ==
    LET update(u) ==
            ShouldUpdate(MapRules(pre.disk[u], Formatted(flt[u]), FALSE).update)
        registered ==
            { u \in DOMAIN cfg : u \in DOMAIN pre.um \/ update(u) }
    IN  [u \in registered |->
            IF update(u) THEN Formatted(flt[u]) ELSE pre.loaded[u]]

\* A tick without any failure has followed, with the same poll data, a tick
\* aborted by a ring error.
HealedTick ==
    /\ TickOver /\ tick.outcome = "done" /\ tick.errored = {}
    /\ prev.outcome = "ringAbort"
    /\ prev.configs = configs

\* C20: when a tick aborted by a ring error is followed by a tick with the
\* same poll data and a healthy ring, the registry and every evaluator's
\* loaded files are then what a single healthy tick would have made of the
\* state before the aborted tick.
C20_ConvergesAfterRingError ==
    HealedTick =>
        LoadedOf(userManagers, managers)
            = HealthyTick(prev.pre, configs, tick.filtered)

\* The same, when the ring names the same owners in both ticks for the
\* groups the aborted tick had got to.
C20_SameOwnersConverge ==
    (HealedTick /\ \A u \in DOMAIN prev.filtered :
                       prev.filtered[u] = tick.filtered[u]) =>
        LoadedOf(userManagers, managers)
            = HealthyTick(prev.pre, configs, tick.filtered)

(***************************************************************************)
(* The shard filter.                                                       *)
(***************************************************************************)
\* In the current tick syncManager has been called for tenant u, all of
\* whose groups the ring gives to other replicas.
OwnedByOthers(u) ==
    /\ enableSharding
    /\ u \in DOMAIN tick.ring
    /\ \A i \in DOMAIN configs[u] :
          tick.ring[u][ShardKey(configs[u][i])] \in Replicas \ {SelfAddr}

\* Tenant u had neither rule files nor an evaluator when the tick began.
UnknownBefore(u) ==
    /\ tick.pre.disk[u] = NoFiles
    /\ u \notin DOMAIN tick.pre.um

\* C21: with sharding enabled, a tick creates no evaluator, writes no file
\* and does not increment config_updates_total for a tenant that had no
\* files and no evaluator here and all of whose groups the ring gives to
\* other replicas.
C21_UnownedTenantUntouched ==
    \A u \in Tenants :
        (OwnedByOthers(u) /\ UnknownBefore(u)) =>
            /\ u \notin DOMAIN userManagers
            /\ \A i \in DOMAIN managers : managers[i].user = u => StopInvoked(i)
            /\ disk[u] = NoFiles
            /\ u \notin tick.wrote
            /\ configUpdatesTotal[u] = tick.pre.cut[u]

\* A completed tick over two tenants: the groups of one belong to another
\* replica, the other one is owned here and got its evaluator.
C21_Witness ==
    /\ TickOver /\ tick.outcome = "done"
    /\ \E u, v \in Tenants :
          /\ OwnedByOthers(u) /\ UnknownBefore(u)
          /\ v # u /\ v \in tick.wrote /\ v \in DOMAIN userManagers

(***************************************************************************)
(* Serialisation of syncManager.                                           *)
(***************************************************************************)
\* The position of step st in the operation thread t is in.
StepAt(t, st) ==
    CHOOSE j \in DOMAIN Program(lkAt[t].op) : Program(lkAt[t].op)[j] = st

\* Thread t is in a syncManager call whose MapRules is done and whose
\* Update is not.
MidCall(t) ==
    /\ lkAt[t].op \in {"syncManager", "syncManagerNew"}
    /\ lkAt[t].i > StepAt(t, Do("MapRules"))
    /\ lkAt[t].i <= StepAt(t, Do("Update"))

\* The steps that write the rule files or the registry.
Mutations == {"MapRules", "insert", "delete", "Update"}

\* C22: from its MapRules to its Update a syncManager call holds
\* userManagerMtx, and no other thread is at a MapRules call or a registry
\* mutation in between, whatever the interleaving with other syncManager
\* calls, the drop loop and getLocalRules.
C22_SyncManagerIsOneSection ==
    \A t1 \in Threads :
        MidCall(t1) =>
            /\ Holds(t1, "userManagerMtx")
            /\ \A t2 \in Threads \ {t1} :
                  lkAt[t2].op # None => NextStep(t2).act \notin Mutations

\* A syncManager call between MapRules and Update while another syncManager
\* call and the drop loop wait for the registry mutex.
C22_Witness ==
    \E t1, t2, t3 \in Threads :
        /\ MidCall(t1) /\ lkAt[t1].op = "syncManagerNew"
        /\ NextStep(t1) = Do("Update")
        /\ lkAt[t2].op = "syncManager" /\ WaitsFor(t2, "userManagerMtx")
        /\ lkAt[t3].op = "dropUsers" /\ WaitsFor(t3, "userManagerMtx")

(***************************************************************************)
(* The group list handed to syncManager.                                   *)
(***************************************************************************)
\* The groups of cfg replica r owns under the ring snapshot, in the order
\* of cfg; every group when sharding is disabled.
OwnedSubsequence(cfg, r) ==
    LET Owned(g) == ~enableSharding \/ shRing[ShardKey(g)] = r
    IN  SelectSeq(cfg, Owned)

\* C23: a replica whose tick was not aborted has handed syncManager, for
\* each polled tenant, exactly the owned groups of the tenant's polled list
\* in poll order; with sharding disabled that is the polled list itself,
\* whatever the ring would answer, and no ownsRule call is made.
C23_FilteredIsOwnedSubsequence ==
    \A r \in Replicas :
        shPc[r] = "done" =>
            /\ DOMAIN shFiltered[r] = DOMAIN shConfigs
            /\ \A u \in DOMAIN shConfigs :
                  /\ shFiltered[r][u] = OwnedSubsequence(shConfigs[u], r)
                  /\ ~enableSharding =>
                        /\ shFiltered[r][u] = shConfigs[u]
                        /\ FilterGroups(enableSharding, shConfigs[u],
                                        shRing, r).queries = 0

\* A sharded replica has completed a tick in which it kept both groups of
\* one tenant and one of the two groups of the other.
C23_Witness ==
    \E r \in Replicas :
        /\ enableSharding
        /\ shPc[r] = "done"
        /\ DOMAIN shConfigs = Tenants
        /\ \E u, v \in Tenants :
              /\ Len(shFiltered[r][u]) = 2
              /\ Len(shFiltered[r][v]) = 1

====
